---- MODULE Spec2Model ----
(***************************************************************************)
(* A model of src/components/ChatInterface.tsx: the chat session           *)
(* controller (sendMessage and its fetch continuation), the reply          *)
(* extraction, the message parser (parseMessage) and the shell highlighter *)
(* (highlightShellCode).  Text is a sequence of one-character strings.     *)
(***************************************************************************)
EXTENDS Integers, Sequences, FiniteSets, TLC

VARIABLES
    messages,   \* useState<Message[]>: the ChatMessage sequence
    input,      \* useState(""): the compose buffer
    isLoading,  \* useState(false): the awaiting-response flag
    pending,    \* the fetch calls that have not resolved, oldest first
    toasts,     \* the number of toast() notifications raised so far
    clock,      \* the value Date.now() returns
    last,       \* the event that produced this state
    data,       \* reply extraction: the JSON object the webhook answers with
    text,       \* parser: the input text
    pieces,     \* parser: the prose pieces and fenced blocks text was written from
    parts,      \* parser: the result of parseMessage(text)
    code,       \* highlighter: the code segment
    words,      \* highlighter: the number of words code was written from
    lines       \* highlighter: the result of highlightShellCode(code)

chatVars == <<messages, input, isLoading, pending, toasts, clock, last>>
parseVars == <<text, pieces, parts>>
hlVars == <<code, words, lines>>
vars == <<messages, input, isLoading, pending, toasts, clock, last,
          data, text, pieces, parts, code, words, lines>>

(***************************************************************************)
(* Bounds.                                                                 *)
(***************************************************************************)
MaxMessages == 4
MaxClock == 2
MaxPieces == 4
MaxWords == 3

(***************************************************************************)
(* Characters and String.prototype.trim.                                   *)
(***************************************************************************)
Whitespace == {" ", "\n", "\t"}

RECURSIVE TrimStart(_)
TrimStart(s) ==
    IF s # <<>> /\ Head(s) \in Whitespace THEN TrimStart(Tail(s)) ELSE s

RECURSIVE TrimEnd(_)
TrimEnd(s) ==
    IF s # <<>> /\ s[Len(s)] \in Whitespace
    THEN TrimEnd(SubSeq(s, 1, Len(s) - 1))
    ELSE s

Trim(s) == TrimEnd(TrimStart(s))

Digits == {"0", "1", "2", "3", "4", "5", "6", "7", "8", "9"}
Lower ==
    {"a", "b", "c", "d", "e", "f", "g", "h", "i", "j", "k", "l", "m",
     "n", "o", "p", "q", "r", "s", "t", "u", "v", "w", "x", "y", "z"}
Upper ==
    {"A", "B", "C", "D", "E", "F", "G", "H", "I", "J", "K", "L", "M",
     "N", "O", "P", "Q", "R", "S", "T", "U", "V", "W", "X", "Y", "Z"}
\* The regular expression class \w.
WordChars == Lower \cup Upper \cup Digits \cup {"_"}

\* s holds p at position i.
HasAt(s, i, p) ==
    /\ i >= 1
    /\ i + Len(p) - 1 <= Len(s)
    /\ SubSeq(s, i, i + Len(p) - 1) = p

(***************************************************************************)
(* JSON values of a decoded response body.  A field of the body is absent  *)
(* (undefined when read), null, a string or a number.                      *)
(***************************************************************************)
JAbsent == [t |-> "undefined", v |-> ""]
JNull == [t |-> "null", v |-> ""]
JStr(s) == [t |-> "string", v |-> s]
JNum(n) == [t |-> "number", v |-> n]

\* JavaScript truthiness, as the || operator tests it.
Truthy(x) ==
    CASE x.t = "undefined" -> FALSE
      [] x.t = "null" -> FALSE
      [] x.t = "string" -> x.v # ""
      [] x.t = "number" -> x.v # "0"

\* JSON.stringify of one value.
StringifyValue(x) ==
    CASE x.t = "null" -> "null"
      [] x.t = "string" -> "\"" \o x.v \o "\""
      [] x.t = "number" -> x.v

FieldNames == <<"output", "message", "response">>

RECURSIVE StringifyFields(_, _, _)
StringifyFields(d, i, first) ==
    IF i > Len(FieldNames) THEN ""
    ELSE LET k == FieldNames[i]
         IN  IF d[k].t = "undefined"
             THEN StringifyFields(d, i + 1, first)
             ELSE (IF first THEN "" ELSE ",")
                  \o "\"" \o k \o "\":" \o StringifyValue(d[k])
                  \o StringifyFields(d, i + 1, FALSE)

\* JSON.stringify(data) for an object holding some of the three fields.
Stringify(d) == "{" \o StringifyFields(d, 1, TRUE) \o "}"

ReplyText_MessageFirst(d) ==
    IF Truthy(d.message) THEN d.message
    ELSE IF Truthy(d.output) THEN d.output
    ELSE IF Truthy(d.response) THEN d.response
    ELSE JStr(Stringify(d))

\* data.output || data.message || data.response || JSON.stringify(data)
ReplyText(d) ==
    IF Truthy(d.output) THEN d.output
    ELSE IF Truthy(d.message) THEN d.message
    ELSE IF Truthy(d.response) THEN d.response
    ELSE JStr(Stringify(d))

(***************************************************************************)
(* The chat session.                                                       *)
(***************************************************************************)
Body(o, m, r) == [output |-> o, message |-> m, response |-> r]

\* What the webhook can answer: fetch rejects (net = FALSE), a status
\* outside 200..299 (ok = FALSE), a body response.json() cannot decode,
\* the JSON value null, or a JSON object.
Response(net, ok, json, d) == [net |-> net, ok |-> ok, json |-> json, data |-> d]
NoBody == Body(JAbsent, JAbsent, JAbsent)

ChatResponses ==
    { Response(FALSE, FALSE, "none", NoBody),
      Response(TRUE, FALSE, "object", Body(JStr("hi"), JAbsent, JAbsent)),
      Response(TRUE, TRUE, "invalid", NoBody),
      Response(TRUE, TRUE, "null", NoBody),
      Response(TRUE, TRUE, "object", Body(JStr("hi"), JAbsent, JAbsent)),
      Response(TRUE, TRUE, "object", Body(JStr(""), JAbsent, JAbsent)) }

Inputs ==
    { <<>>, <<" ">>, <<"\n", " ">>, <<"a">>, <<" ", "a", "\n">>, <<"b">> }

NoEvent == [op |-> "init", accepted |-> FALSE]

ChatInit ==
    /\ messages = <<>>
    /\ input = <<>>
    /\ isLoading = FALSE
    /\ pending = <<>>
    /\ toasts = 0
    /\ clock = 0
    /\ last = NoEvent

SubmitBlocked_NoFlag == Trim(input) = <<>>

SubmitBlocked_NoTrim == input = <<>> \/ isLoading

\* if (!input.trim() || isLoading) return;
SubmitBlocked == Trim(input) = <<>> \/ isLoading

userMessage ==
    [id |-> ToString(clock), text |-> Trim(input), sender |-> "user",
     timestamp |-> clock]

\* The fetch call issued by an accepted submit, with the continuation's
\* closure (userMessage); before and toastsBefore record the state the
\* submit started from.
Request ==
    [body |-> [message |-> userMessage.text], userMessage |-> userMessage,
     before |-> messages, toastsBefore |-> toasts]

\* Room for the user message and the assistant message of one more turn.
CanAppendTurn == Len(messages) + 2 <= MaxMessages

sendMessage(trigger) ==
    /\ SubmitBlocked \/ CanAppendTurn
    /\ IF SubmitBlocked
       THEN /\ UNCHANGED <<messages, input, isLoading, pending>>
            /\ last' = [op |-> trigger, accepted |-> FALSE]
       ELSE /\ messages' = Append(messages, userMessage)
            /\ input' = <<>>
            /\ isLoading' = TRUE
            /\ pending' = Append(pending, Request)
            /\ last' = [op |-> trigger, accepted |-> TRUE]
    /\ UNCHANGED <<toasts, clock>>

\* onChange={(e) => setInput(e.target.value)}.  The handler has no guard of
\* its own: the textarea's disabled attribute keeps a user from typing while
\* a request is outstanding, an event dispatched by a script still arrives.
OnChange(v) ==
    /\ input' = v
    /\ last' = [op |-> "change", accepted |-> FALSE]
    /\ UNCHANGED <<messages, isLoading, pending, toasts, clock>>

\* The send button: React delivers no click to a disabled button.
ClickSend ==
    /\ ~(Trim(input) = <<>> \/ isLoading)
    /\ sendMessage("click")

\* Enter without Shift submits; the handler does not look at the flag.
handleKeyDown(key, shiftKey) ==
    IF key = "Enter" /\ ~shiftKey
    THEN sendMessage("enter")
    ELSE /\ last' = [op |-> "key", accepted |-> FALSE]
         /\ UNCHANGED <<messages, input, isLoading, pending, toasts, clock>>

ResponseOk_Ignored(r) == TRUE

\* response.ok
ResponseOk(r) == r.ok

\* The try block throws: fetch rejects, the status check throws,
\* response.json() rejects, or data.output reads a property of null.
Throws(r) ==
    \/ ~r.net
    \/ ~ResponseOk(r)
    \/ r.json = "invalid"
    \/ r.json = "null"

botMessage(r) ==
    [id |-> ToString(clock + 1), text |-> ReplyText(r.data), sender |-> "bot",
     timestamp |-> clock]

LoadingAfter_TryOnly(threw) == IF threw THEN isLoading ELSE FALSE

\* finally { setIsLoading(false); }
LoadingAfter(threw) == FALSE

\* The continuation of sendMessage after await fetch(...), for the
\* outstanding request at position i.
FetchResolve(i, r) ==
    /\ i \in DOMAIN pending
    /\ pending' = SubSeq(pending, 1, i - 1) \o SubSeq(pending, i + 1, Len(pending))
    /\ IF Throws(r)
       THEN /\ messages' = messages
            /\ toasts' = toasts + 1
       ELSE /\ messages' = Append(messages, botMessage(r))
            /\ toasts' = toasts
    /\ isLoading' = LoadingAfter(Throws(r))
    /\ last' = [op |-> "resolve", accepted |-> FALSE, response |-> r,
                request |-> pending[i]]
    /\ UNCHANGED <<input, clock>>

\* Time passes: Date.now() is one millisecond later.  Nothing makes it
\* advance between two events.
Tick ==
    /\ clock < MaxClock
    /\ clock' = clock + 1
    /\ last' = [op |-> "tick", accepted |-> FALSE]
    /\ UNCHANGED <<messages, input, isLoading, pending, toasts>>

\* The webhook's answers the reply extraction is checked on: every object
\* whose three fields are each absent, null, "", "0"-valued or non-empty.
FieldValues == {JAbsent, JNull, JStr(""), JNum("0"), JStr("hi"), JStr("yo")}
ReplyBodies == {Body(o, m, r) : o \in FieldValues, m \in FieldValues, r \in FieldValues}

othersInit ==
    /\ text = <<>> /\ pieces = <<>> /\ parts = <<>>
    /\ code = <<>> /\ lines = <<>> /\ words = 0

Init ==
    /\ ChatInit
    /\ data = NoBody
    /\ othersInit

ChangeStep == \E v \in Inputs : OnChange(v) /\ UNCHANGED <<data, parseVars, hlVars>>
ClickStep == ClickSend /\ UNCHANGED <<data, parseVars, hlVars>>
KeyStep ==
    \E key \in {"Enter", "a"}, shiftKey \in BOOLEAN :
        handleKeyDown(key, shiftKey) /\ UNCHANGED <<data, parseVars, hlVars>>
ResolveStep ==
    \E i \in DOMAIN pending, r \in ChatResponses :
        FetchResolve(i, r) /\ UNCHANGED <<data, parseVars, hlVars>>
TickStep == Tick /\ UNCHANGED <<data, parseVars, hlVars>>

Next ==
    \/ ChangeStep
    \/ ClickStep
    \/ KeyStep
    \/ ResolveStep
    \/ TickStep

Spec == Init /\ [][Next]_vars

(***************************************************************************)
(* The session answered by one fixed JSON object, data: a turn typed,      *)
(* submitted and resolved with status ok and body data.                    *)
(***************************************************************************)
ReplyInit ==
    /\ ChatInit
    /\ data \in ReplyBodies
    /\ othersInit

TypeStep == OnChange(<<"a">>) /\ UNCHANGED <<data, parseVars, hlVars>>
EnterStep == handleKeyDown("Enter", FALSE) /\ UNCHANGED <<data, parseVars, hlVars>>
AnswerStep ==
    /\ FetchResolve(1, Response(TRUE, TRUE, "object", data))
    /\ UNCHANGED <<data, parseVars, hlVars>>

ReplyNext ==
    \/ TypeStep
    \/ EnterStep
    \/ AnswerStep

SpecReply == ReplyInit /\ [][ReplyNext]_vars

(***************************************************************************)
(* parseMessage.  Positions are 1-based: position i here is index i - 1    *)
(* of the JavaScript string.                                               *)
(***************************************************************************)
\* The backquote character, which a TLA+ string cannot hold.
Backquote == "backquote"
Fence == <<Backquote, Backquote, Backquote>>
Bash == <<"b", "a", "s", "h">>

\* The least position >= j that holds no \w character (Len(s) + 1 if none).
RECURSIVE WordEnd(_, _)
WordEnd(s, j) ==
    IF j <= Len(s) /\ s[j] \in WordChars THEN WordEnd(s, j + 1) ELSE j

RECURSIVE FindLastFence(_, _)
FindLastFence(s, k) ==
    IF k > Len(s) THEN 0
    ELSE LET later == FindLastFence(s, k + 1)
         IN  IF later # 0 THEN later
             ELSE IF HasAt(s, k, Fence) THEN k ELSE 0

\* ([\s\S]*?)```: the least position >= k that holds a fence, or 0.
RECURSIVE FindFence(_, _)
FindFence(s, k) ==
    IF k > Len(s) THEN 0
    ELSE IF HasAt(s, k, Fence) THEN k
    ELSE FindFence(s, k + 1)

NoMatch == [found |-> FALSE, index |-> 0, tag |-> <<>>, body |-> <<>>, end |-> 0]

\* /```(\w+)?\n([\s\S]*?)```/ matched at position i: the greedy optional
\* tag must be followed by a newline, the lazy body ends at the first fence.
codeBlockRegexAt(s, i) ==
    IF ~HasAt(s, i, Fence) THEN NoMatch
    ELSE LET j == WordEnd(s, i + 3)
         IN  IF j > Len(s) \/ s[j] # "\n" THEN NoMatch
             ELSE LET k == FindFence(s, j + 1)
                  IN  IF k = 0 THEN NoMatch
                      ELSE [found |-> TRUE, index |-> i,
                            tag |-> SubSeq(s, i + 3, j - 1),
                            body |-> SubSeq(s, j + 1, k - 1),
                            end |-> k + 3]

\* codeBlockRegex.exec(text) with the regex's lastIndex at position from.
RECURSIVE codeBlockRegexExec(_, _)
codeBlockRegexExec(s, from) ==
    IF from > Len(s) THEN NoMatch
    ELSE LET m == codeBlockRegexAt(s, from)
         IN  IF m.found THEN m ELSE codeBlockRegexExec(s, from + 1)

TextPart(c) == [type |-> "text", content |-> c]

\* match[1] || "bash"
CodeLanguage(tag) == IF tag # <<>> THEN tag ELSE Bash

CodePart(m) ==
    [type |-> "code", content |-> Trim(m.body), language |-> CodeLanguage(m.tag)]

\* The while loop: lastIndex is the position after the previous match.
RECURSIVE ParseLoop(_, _, _)
ParseLoop(s, lastIndex, acc) ==
    LET m == codeBlockRegexExec(s, lastIndex)
    IN  IF ~m.found THEN [parts |-> acc, lastIndex |-> lastIndex]
        ELSE LET textContent == Trim(SubSeq(s, lastIndex, m.index - 1))
                 acc1 == IF m.index > lastIndex /\ textContent # <<>>
                         THEN Append(acc, TextPart(textContent))
                         ELSE acc
             IN  ParseLoop(s, m.end, Append(acc1, CodePart(m)))

Fallback_Trimmed(s) == <<TextPart(Trim(s))>>

\* [{ type: "text", content: text }]
Fallback(s) == <<TextPart(s)>>

parseMessage(s) ==
    LET loop == ParseLoop(s, 1, <<>>)
        textContent == Trim(SubSeq(s, loop.lastIndex, Len(s)))
        all == IF loop.lastIndex <= Len(s) /\ textContent # <<>>
               THEN Append(loop.parts, TextPart(textContent))
               ELSE loop.parts
    IN  IF Len(all) > 0 THEN all ELSE Fallback(s)

(***************************************************************************)
(* The parser's inputs: a text written piece by piece from prose, whole    *)
(* fenced blocks and bare fence markers, then parsed.                      *)
(***************************************************************************)
ProsePieces == {<<" ">>, <<"a">>, <<"\n">>, <<Backquote>>}
Tags == {<<>>, <<"j", "s">>}
Bodies == {<<>>, <<" ", "x", "\n">>}

BlockText(tag, body) == Fence \o tag \o <<"\n">> \o body \o Fence

ParseInit ==
    /\ ChatInit
    /\ data = NoBody
    /\ text = <<>> /\ pieces = <<>> /\ parts = <<>>
    /\ code = <<>> /\ lines = <<>> /\ words = 0

Unparsed == parts = <<>> /\ Len(pieces) < MaxPieces

AddProse ==
    \E p \in ProsePieces :
        /\ Unparsed
        /\ text' = text \o p
        /\ pieces' = Append(pieces, [kind |-> "prose", tag |-> <<>>, body |-> p])
        /\ UNCHANGED <<parts, chatVars, data, hlVars>>

AddBlock ==
    \E tag \in Tags, body \in Bodies :
        /\ Unparsed
        /\ text' = text \o BlockText(tag, body)
        /\ pieces' = Append(pieces, [kind |-> "block", tag |-> tag, body |-> body])
        /\ UNCHANGED <<parts, chatVars, data, hlVars>>

AddFence ==
    /\ Unparsed
    /\ text' = text \o Fence
    /\ pieces' = Append(pieces, [kind |-> "fence", tag |-> <<>>, body |-> Fence])
    /\ UNCHANGED <<parts, chatVars, data, hlVars>>

Parse ==
    /\ parts = <<>>
    /\ parts' = parseMessage(text)
    /\ UNCHANGED <<text, pieces, chatVars, data, hlVars>>

ParseNext ==
    \/ AddProse
    \/ AddBlock
    \/ AddFence
    \/ Parse

SpecParse == ParseInit /\ [][ParseNext]_vars

(***************************************************************************)
(* highlightShellCode.                                                     *)
(***************************************************************************)
keywords1 ==
    { <<"t", "h", "e", "n">>,
      <<"e", "l", "s", "e">>,
      <<"f", "u", "n", "c", "t", "i", "o", "n">>,
      <<"b", "r", "e", "a", "k">>,
      <<"d", "o">>,
      <<"u", "n", "t", "i", "l">>,
      <<"u", "s", "e">>,
      <<"t", "r", "y">>,
      <<"c", "a", "t", "c", "h">>,
      <<"r", "e", "t", "u", "r", "n">>,
      <<"i", "f">>,
      <<"f", "i">>,
      <<"w", "h", "i", "l", "e">>,
      <<"c", "a", "s", "e">>,
      <<"e", "s", "a", "c">>,
      <<"f", "o", "r">>,
      <<"d", "o", "n", "e">>,
      <<"i", "n">> }

keywords3 ==
    { <<"p", "r", "i", "n", "t">>,
      <<"e", "c", "h", "o">>,
      <<"l", "o", "w", "e", "r">>,
      <<"t", "r", "i", "m">>,
      <<"e", "d", "i", "t">>,
      <<"c", "o", "n", "s", "t">>,
      <<"c", "h", "m", "o", "d">>,
      <<"c", "d">>,
      <<"l", "s">>,
      <<"c", "a", "t">>,
      <<"g", "r", "e", "p">>,
      <<"a", "w", "k">>,
      <<"s", "e", "d">> }

keywords4 ==
    { <<"t", "r", "u", "e">>,
      <<"f", "a", "l", "s", "e">>,
      <<"n", "u", "l", "l">>,
      <<"a", "n", "d">>,
      <<"o", "r">>,
      <<"n", "o", "t">> }

\* The character class [!#(),;\[\]{}+<=>-].
OperatorChars ==
    {"!", "#", "(", ")", ",", ";", "[", "]", "{", "}", "+", "<", "=", ">", "-"}

ColorNumber == "#FF6B6B"
ColorKeywords1 == "#00FFFF"
ColorKeywords3 == "#00CED1"
ColorKeywords4 == "#FFD700"
ColorOperator == "#40E0D0"
ColorString == "#98FB98"
ColorComment == "#00FF00"
ColorVariable == "#FFA500"
ColorDefault == "#E0E0E0"
\* A span with no style: the comment's leading whitespace, an untokenized line.
NoColor == "none"

Span(t, c) == [text |-> t, color |-> c]

\* code.split("\n")
RECURSIVE SplitLines(_, _)
SplitLines(s, cur) ==
    IF s = <<>> THEN <<cur>>
    ELSE IF Head(s) = "\n" THEN <<cur>> \o SplitLines(Tail(s), <<>>)
    ELSE SplitLines(Tail(s), Append(cur, Head(s)))

\* The least position >= j that holds no whitespace (Len(s) + 1 if none).
RECURSIVE SpaceEnd(_, _)
SpaceEnd(s, j) ==
    IF j <= Len(s) /\ s[j] \in Whitespace THEN SpaceEnd(s, j + 1) ELSE j

\* The least position >= j that holds q, or 0.
RECURSIVE FindChar(_, _, _)
FindChar(s, j, q) ==
    IF j > Len(s) THEN 0
    ELSE IF s[j] = q THEN j
    ELSE FindChar(s, j + 1, q)

\* line.match(/^(\s*)(#.*)$/): the first character after the leading
\* whitespace is #.
commentMatch(line) ==
    LET j == SpaceEnd(line, 1) IN j <= Len(line) /\ line[j] = "#"

\* The length of the match of tokenRegex at position i, 0 when none of its
\* alternatives matches there:
\* \$?\w+ | [!#(),;\[\]{}+<=>-] | \d+ | "[^"]*" | '[^']*' | \s+
tokenRegexAt(line, i) ==
    LET c == line[i]
        quoteEnd == FindChar(line, i + 1, c)
    IN  IF c = "$" /\ i + 1 <= Len(line) /\ line[i + 1] \in WordChars
        THEN WordEnd(line, i + 1) - i
        ELSE IF c \in WordChars THEN WordEnd(line, i) - i
        ELSE IF c \in OperatorChars THEN 1
        ELSE IF c \in {"\"", "'"} /\ quoteEnd # 0 THEN quoteEnd - i + 1
        ELSE IF c \in Whitespace THEN SpaceEnd(line, i) - i
        ELSE 0

\* Array.from(line.matchAll(tokenRegex)): where nothing matches the scan
\* moves one character on.
RECURSIVE Matches(_, _)
Matches(line, i) ==
    IF i > Len(line) THEN <<>>
    ELSE LET n == tokenRegexAt(line, i)
         IN  IF n = 0 THEN Matches(line, i + 1)
             ELSE <<SubSeq(line, i, i + n - 1)>> \o Matches(line, i + n)

Includes_Prefix(keywords, token) ==
    \E w \in keywords : Len(w) <= Len(token) /\ SubSeq(token, 1, Len(w)) = w

\* keywords.includes(token)
Includes(keywords, token) == token \in keywords

\* The if / else if chain that colors one token.
Classify(token) ==
    IF token # <<>> /\ \A i \in DOMAIN token : token[i] \in Digits
    THEN ColorNumber
    ELSE IF Includes(keywords1, token) THEN ColorKeywords1
    ELSE IF Includes(keywords3, token) THEN ColorKeywords3
    ELSE IF Includes(keywords4, token) THEN ColorKeywords4
    ELSE IF Len(token) = 1 /\ token[1] \in OperatorChars THEN ColorOperator
    ELSE IF /\ Len(token) >= 2
            /\ token[1] \in {"\"", "'"}
            /\ token[Len(token)] \in {"\"", "'"}
    THEN ColorString
    ELSE IF token # <<>> /\ token[1] = "#" THEN ColorComment
    ELSE IF token # <<>> /\ token[1] = "$" THEN ColorVariable
    ELSE ColorDefault

\* What one line renders as: the two spans of a whole-line comment, the
\* colored tokens, or the raw line when no token was matched.
HighlightLine(line) ==
    IF commentMatch(line)
    THEN LET j == SpaceEnd(line, 1)
         IN  [comment |-> TRUE,
              spans |-> <<Span(SubSeq(line, 1, j - 1), NoColor),
                          Span(SubSeq(line, j, Len(line)), ColorComment)>>]
    ELSE LET tokens == Matches(line, 1)
         IN  [comment |-> FALSE,
              spans |-> IF Len(tokens) > 0
                        THEN [i \in 1..Len(tokens) |-> Span(tokens[i], Classify(tokens[i]))]
                        ELSE <<Span(line, NoColor)>>]

highlightShellCode(c) ==
    LET ls == SplitLines(c, <<>>)
    IN  [i \in 1..Len(ls) |-> HighlightLine(ls[i])]

(***************************************************************************)
(* The highlighter's inputs: a code segment written word by word, then     *)
(* highlighted.                                                            *)
(***************************************************************************)
Words ==
    { <<"i", "f", " ">>,
      <<"t", "r", "u", "e", ";", " ">>,
      <<"t", "h", "e", "n">>,
      <<"c", "a", "t">>,
      <<"l", "s">>,
      <<"4", "2">>,
      <<"$", "x">>,
      <<".">>,
      <<"#">>,
      <<"\"", "a", "\"">>,
      <<"\"">>,
      <<"\n">>,
      <<"I", "f">>,
      <<" ">> }

HighlightInit ==
    /\ ChatInit
    /\ data = NoBody
    /\ text = <<>> /\ pieces = <<>> /\ parts = <<>>
    /\ code = <<>> /\ lines = <<>> /\ words = 0

AddWord ==
    \E w \in Words :
        /\ lines = <<>> /\ words < MaxWords
        /\ code' = code \o w
        /\ words' = words + 1
        /\ UNCHANGED <<lines, chatVars, data, parseVars>>

Highlight ==
    /\ lines = <<>>
    /\ lines' = highlightShellCode(code)
    /\ UNCHANGED <<code, words, chatVars, data, parseVars>>

HighlightNext ==
    \/ AddWord
    \/ Highlight

SpecHighlight == HighlightInit /\ [][HighlightNext]_vars

(***************************************************************************)
(* Claims about the chat session.                                          *)
(***************************************************************************)
SendOps == {"click", "enter"}
IsBlank(s) == \A i \in DOMAIN s : s[i] \in Whitespace

\* C1: at most one webhook request is outstanding in every reachable state,
\* and a submit (button or Enter) made while the awaiting-response flag is
\* set appends no message and issues no request.
C1_OneOutstanding ==
    /\ [](Len(pending) <= 1)
    /\ [][(last'.op \in SendOps /\ isLoading)
            => (messages' = messages /\ pending' = pending)]_vars

\* A submit with non-blank text was made while a request was outstanding.
C1_Witness ==
    /\ last.op = "enter" /\ ~last.accepted
    /\ isLoading /\ ~IsBlank(input) /\ Len(pending) = 1

\* The failures the claim names: transport failure, non-success status,
\* undecodable body.
Failed(r) == ~r.net \/ ~r.ok \/ r.json = "invalid"

\* C2: when a request ends in failure the turn has appended exactly one
\* message, the user message (the sequence is the one before the submit plus
\* that message, no assistant message), and raised exactly one notification.
C2_FailedTurn ==
    (last.op = "resolve" /\ Failed(last.response))
        => /\ messages = Append(last.request.before, last.request.userMessage)
           /\ last.request.userMessage.sender = "user"
           /\ toasts = last.request.toastsBefore + 1

\* A request answered with a non-success status and a decodable body failed.
C2_Witness ==
    /\ last.op = "resolve"
    /\ last.response.net /\ ~last.response.ok /\ last.response.json = "object"
    /\ Len(messages) = 3

\* C3: when a request resolves, by success or by any failure, the flag is
\* cleared; the flag is set exactly while a request is outstanding; and a
\* submit with non-blank text made while the flag is clear is accepted: it
\* appends the user message and issues a request.
C3_FlagReleased ==
    /\ [](last.op = "resolve" => ~isLoading)
    /\ [](isLoading <=> pending # <<>>)
    /\ [][(last'.op \in SendOps /\ ~isLoading /\ ~IsBlank(input))
            => /\ Len(messages') = Len(messages) + 1
               /\ SubSeq(messages', 1, Len(messages)) = messages
               /\ messages'[Len(messages')].sender = "user"
               /\ messages'[Len(messages')].text = Trim(input)
               /\ Len(pending') = Len(pending) + 1
               /\ isLoading']_vars

\* A submit was accepted after an earlier request had failed.
C3_Witness ==
    /\ last.op \in SendOps /\ last.accepted
    /\ toasts >= 1 /\ Len(pending) = 1 /\ isLoading

\* C4: a submit whose compose text is empty or only whitespace changes
\* nothing: messages, flag and compose buffer stay and no request is issued.
C4_BlankSubmit ==
    [][(last'.op \in SendOps /\ IsBlank(input))
         => UNCHANGED <<messages, isLoading, input, pending, toasts>>]_vars

\* A whitespace-only text was submitted while no request was outstanding.
C4_Witness ==
    /\ last.op = "enter" /\ ~last.accepted
    /\ input # <<>> /\ IsBlank(input) /\ ~isLoading

Succeeded(r) == r.net /\ r.ok /\ r.json = "object"
Present(x) == x.t # "undefined"
LastText == messages[Len(messages)].text

\* C5 as stated: the assistant text is the value of the first of output,
\* message, response present in the body; the dump only when none is present.
C5_FirstPresent ==
    (last.op = "resolve" /\ Succeeded(last.response))
        => LET d == last.response.data
           IN  \/ \E i \in DOMAIN FieldNames :
                    /\ Present(d[FieldNames[i]])
                    /\ \A j \in 1..(i - 1) : ~Present(d[FieldNames[j]])
                    /\ LastText = d[FieldNames[i]]
               \/ /\ \A i \in DOMAIN FieldNames : ~Present(d[FieldNames[i]])
                  /\ LastText = JStr(Stringify(d))

\* C5 amended: the assistant text is the value of the first of output,
\* message, response whose value is truthy (present, not null, not "" and
\* not 0); the dump of the whole body is used when none of the three is.
C5_FirstTruthy ==
    (last.op = "resolve" /\ Succeeded(last.response))
        => LET d == last.response.data
           IN  /\ messages[Len(messages)].sender = "bot"
               /\ \/ \E i \in DOMAIN FieldNames :
                       /\ Truthy(d[FieldNames[i]])
                       /\ \A j \in 1..(i - 1) : ~Truthy(d[FieldNames[j]])
                       /\ LastText = d[FieldNames[i]]
                  \/ /\ \A i \in DOMAIN FieldNames : ~Truthy(d[FieldNames[i]])
                     /\ LastText = JStr(Stringify(d))

\* A body whose output is present but empty and whose message is non-empty.
C5_Witness ==
    /\ last.op = "resolve" /\ Succeeded(last.response)
    /\ last.response.data.output = JStr("")
    /\ last.response.data.message = JStr("hi")
    /\ last.response.data.response = JStr("yo")

\* C6: every message of the sequence has an id no other message has.
C6_UniqueIds ==
    \A i \in DOMAIN messages, j \in DOMAIN messages :
        i # j => messages[i].id # messages[j].id

(***************************************************************************)
(* Claims about parseMessage.                                              *)
(***************************************************************************)
IsBlock(p) == p.kind = "block"
IsCode(p) == p.type = "code"
IsText(p) == p.type = "text"

\* The blocks the text was written with, in order, and the code segments
\* of the result, in order.
WrittenBlocks == SelectSeq(pieces, IsBlock)
CodeParts == SelectSeq(parts, IsCode)
TextParts == SelectSeq(parts, IsText)

Contains(s, p) == \E i \in 1..Len(s) : HasAt(s, i, p)

\* The text between two blocks (or before the first, after the last) that
\* ends at piece n.
RECURSIVE ProseRun(_, _)
ProseRun(ps, n) ==
    IF n = 0 \/ ps[n].kind = "block" THEN <<>>
    ELSE ProseRun(ps, n - 1) \o ps[n].body

\* The text consists of fenced blocks and of prose that holds no fence.
WellFormed ==
    \A n \in DOMAIN pieces :
        pieces[n].kind # "block" => ~Contains(ProseRun(pieces, n), Fence)

SegmentsOf(n) ==
    /\ Len(CodeParts) = n
    /\ \A i \in 1..n :
          /\ CodeParts[i].language =
                (IF WrittenBlocks[i].tag = <<>> THEN Bash ELSE WrittenBlocks[i].tag)
          /\ CodeParts[i].content = Trim(WrittenBlocks[i].body)
    /\ Len(TextParts) <= n + 1
    /\ \A i \in 1..(Len(parts) - 1) : ~(IsText(parts[i]) /\ IsText(parts[i + 1]))
    /\ \A i \in DOMAIN TextParts : ~IsBlank(TextParts[i].content)

NoBlockFound == parts # <<>> /\ CodeParts = <<>>

\* C8 as stated: when no fenced block is found the result is one prose
\* segment whose content is the input text, untrimmed.
C8_Untrimmed ==
    NoBlockFound => parts = <<[type |-> "text", content |-> text]>>

\* c is t without its leading and trailing whitespace, t not blank.
IsTrimOf(c, t) ==
    \E i \in 1..Len(t), j \in 1..Len(t) :
        /\ i <= j
        /\ c = SubSeq(t, i, j)
        /\ t[i] \notin Whitespace /\ t[j] \notin Whitespace
        /\ \A k \in 1..(i - 1) : t[k] \in Whitespace
        /\ \A k \in (j + 1)..Len(t) : t[k] \in Whitespace

\* C8 amended: when no fenced block is found the result is one prose
\* segment; its content is the input text with leading and trailing
\* whitespace removed, and the input text itself, untrimmed, when the text
\* is empty or only whitespace.
C8_TrimmedUnlessBlank ==
    NoBlockFound
        => /\ Len(parts) = 1
           /\ parts[1].type = "text"
           /\ IsBlank(text) => parts[1].content = text
           /\ ~IsBlank(text) => IsTrimOf(parts[1].content, text)

\* A text with an unclosed fence and whitespace around it, parsed.
C8_Witness ==
    /\ NoBlockFound
    /\ Contains(text, Fence)
    /\ text[1] \in Whitespace

(***************************************************************************)
(* Claims about highlightShellCode.                                        *)
(***************************************************************************)
RECURSIVE Join(_)
Join(spans) ==
    IF spans = <<>> THEN <<>> ELSE Head(spans).text \o Join(Tail(spans))

CodeLines == SplitLines(code, <<>>)

\* C9: for every line that is not a whole-line comment, the tokens emitted
\* for the line, joined in order, are the line: no character is dropped and
\* none is duplicated.
C9_NoGaps ==
    lines # <<>>
        => \A i \in DOMAIN lines :
              ~lines[i].comment => Join(lines[i].spans) = CodeLines[i]

\* The sets of words the claim lists.
ListedKeywords1 ==
    { <<"t", "h", "e", "n">>,
      <<"e", "l", "s", "e">>,
      <<"f", "u", "n", "c", "t", "i", "o", "n">>,
      <<"b", "r", "e", "a", "k">>,
      <<"d", "o">>,
      <<"u", "n", "t", "i", "l">>,
      <<"u", "s", "e">>,
      <<"t", "r", "y">>,
      <<"c", "a", "t", "c", "h">>,
      <<"r", "e", "t", "u", "r", "n">>,
      <<"i", "f">>,
      <<"f", "i">>,
      <<"w", "h", "i", "l", "e">>,
      <<"c", "a", "s", "e">>,
      <<"e", "s", "a", "c">>,
      <<"f", "o", "r">>,
      <<"d", "o", "n", "e">>,
      <<"i", "n">> }

ListedKeywords3 ==
    { <<"p", "r", "i", "n", "t">>,
      <<"e", "c", "h", "o">>,
      <<"l", "o", "w", "e", "r">>,
      <<"t", "r", "i", "m">>,
      <<"e", "d", "i", "t">>,
      <<"c", "o", "n", "s", "t">>,
      <<"c", "h", "m", "o", "d">>,
      <<"c", "d">>,
      <<"l", "s">>,
      <<"g", "r", "e", "p">>,
      <<"a", "w", "k">>,
      <<"s", "e", "d">> }

ListedKeywords4 ==
    { <<"t", "r", "u", "e">>,
      <<"f", "a", "l", "s", "e">>,
      <<"n", "u", "l", "l">>,
      <<"a", "n", "d">>,
      <<"o", "r">>,
      <<"n", "o", "t">> }

AllDigits(t) == t # <<>> /\ \A i \in DOMAIN t : t[i] \in Digits
Quotes == {"\"", "'"}

\* Rule n of the claim's list matches token t, with kw3 as keyword-set-3.
RuleMatches(n, t, kw3) ==
    CASE n = 1 -> AllDigits(t)
      [] n = 2 -> t \in ListedKeywords1
      [] n = 3 -> t \in kw3
      [] n = 4 -> t \in ListedKeywords4
      [] n = 5 -> Len(t) = 1 /\ t[1] \in OperatorChars
      [] n = 6 -> Len(t) >= 2 /\ t[1] \in Quotes /\ t[Len(t)] \in Quotes
      [] n = 7 -> t # <<>> /\ t[1] = "#"
      [] n = 8 -> t # <<>> /\ t[1] = "$"
      [] n = 9 -> TRUE

RuleColors ==
    <<ColorNumber, ColorKeywords1, ColorKeywords3, ColorKeywords4, ColorOperator,
      ColorString, ColorComment, ColorVariable, ColorDefault>>

\* Every token of every tokenized line has the color of the first rule
\* that matches it.
FirstRuleWins(kw3) ==
    \A i \in DOMAIN lines :
        (~lines[i].comment /\ Matches(CodeLines[i], 1) # <<>>)
            => \A k \in DOMAIN lines[i].spans :
                  LET t == lines[i].spans[k].text
                  IN  \E n \in 1..9 :
                         /\ RuleMatches(n, t, kw3)
                         /\ \A m \in 1..(n - 1) : ~RuleMatches(m, t, kw3)
                         /\ lines[i].spans[k].color = RuleColors[n]

IfTrueThen ==
    <<"i", "f", " ", "t", "r", "u", "e", ";", " ", "t", "h", "e", "n">>

\* In "if true; then", "if" and "then" are keyword-1 and "true" keyword-4.
ExampleColors ==
    code = IfTrueThen
        => /\ Len(lines) = 1
           /\ Len(lines[1].spans) = 6
           /\ lines[1].spans[1] = Span(<<"i", "f">>, ColorKeywords1)
           /\ lines[1].spans[3] = Span(<<"t", "r", "u", "e">>, ColorKeywords4)
           /\ lines[1].spans[6] = Span(<<"t", "h", "e", "n">>, ColorKeywords1)

\* C10 as stated: every token has the color of the first matching rule of
\* all digits, keyword-set-1, keyword-set-3 (print echo lower trim edit
\* const chmod cd ls grep awk sed), keyword-set-4, operator character,
\* quoted string, starts with #, starts with $, default.
C10_ListedSets ==
    lines # <<>> => FirstRuleWins(ListedKeywords3) /\ ExampleColors

\* C10 amended: the same with keyword-set-3 holding cat as well.
C10_ListedSetsAndCat ==
    lines # <<>>
        => FirstRuleWins(ListedKeywords3 \cup {<<"c", "a", "t">>}) /\ ExampleColors

\* "if true; then" highlighted.
C10_Witness == lines # <<>> /\ code = IfTrueThen

====
